---------------------------- MODULE Spec2Model ----------------------------
(***************************************************************************)
(* Model of app.py, the RDO extractor: the section locator                 *)
(* (_recorta_bloco), the record reconstructor (_parse_secao) and the batch *)
(* loop (processar_arquivos).                                              *)
(*                                                                         *)
(* A Python str is a sequence of characters; a character is a one-letter   *)
(* string.  A precomposed accented letter is written as its base letter    *)
(* followed by the accent sign ("a^" is U+00E2, "e'" is U+00E9, "a~" is    *)
(* U+00E3, "c," is U+00E7, "o~" is U+00F5, "u'" is U+00FA, ...), and a     *)
(* combining mark (Unicode category Mn) as "+" followed by the sign.       *)
(* "NL" is the line break.  Indexes are 0-based as in the source: At(s, k) *)
(* is s[k].                                                                *)
(***************************************************************************)
EXTENDS Integers, Sequences, FiniteSets, TLC

VARIABLES
    pc,              \* position of the operation under check
    tipo,            \* the section tag handed to _parse_secao / _recorta_bloco
    linhas,          \* _parse_secao: the cleaned line list
    dados,           \* _parse_secao: the records returned
    texto,           \* _recorta_bloco: the document text
    bloco,           \* _recorta_bloco: the value returned (<<>> is None)
    corte,           \* _recorta_bloco: the locals s and e at the return
    files,           \* processar_arquivos: the batch
    idx,             \* processar_arquivos: number of files already processed
    saida,           \* processar_arquivos: the accumulator "linhas"
    inconsistencias  \* processar_arquivos: the accumulator "inconsistencias"

vars == <<pc, tipo, linhas, dados, texto, bloco, corte, files, idx, saida, inconsistencias>>

---------------------------------------------------------------------------
(* Python str primitives                                                   *)

At(s, k) == s[k + 1]

Slice(s, a, b) == SubSeq(s, a + 1, b)

Max(a, b) == IF a >= b THEN a ELSE b

Min(a, b) == IF a <= b THEN a ELSE b

LowerLetters ==
    <<"a","b","c","d","e","f","g","h","i","j","k","l","m",
      "n","o","p","q","r","s","t","u","v","w","x","y","z">>

UpperLetters ==
    <<"A","B","C","D","E","F","G","H","I","J","K","L","M",
      "N","O","P","Q","R","S","T","U","V","W","X","Y","Z">>

\* unicodedata.normalize("NFD", ch) of one character
Decomposed ==
    ("a^" :> <<"a", "+^">>) @@ ("A^" :> <<"A", "+^">>) @@
    ("e'" :> <<"e", "+'">>) @@ ("E'" :> <<"E", "+'">>) @@
    ("a'" :> <<"a", "+'">>) @@ ("A'" :> <<"A", "+'">>) @@
    ("u'" :> <<"u", "+'">>) @@ ("U'" :> <<"U", "+'">>) @@
    ("a~" :> <<"a", "+~">>) @@ ("A~" :> <<"A", "+~">>) @@
    ("o~" :> <<"o", "+~">>) @@ ("O~" :> <<"O", "+~">>) @@
    ("c," :> <<"c", "+,">>) @@ ("C," :> <<"C", "+,">>)

NFDChar(ch) == IF ch \in DOMAIN Decomposed THEN Decomposed[ch] ELSE <<ch>>


\* unicodedata.category(ch) == "Mn"
IsMn(ch) == ch \in {"+^", "+'", "+~", "+,"}

\* str.upper() of one character
UpperChar(ch) ==
    IF \E n \in 1..26 : LowerLetters[n] = ch
    THEN <<UpperLetters[CHOOSE n \in 1..26 : LowerLetters[n] = ch]>>
    ELSE IF ch \in DOMAIN Decomposed /\ Decomposed[ch][1] \in {"a", "e", "u", "o", "c"}
    THEN <<CHOOSE up \in DOMAIN Decomposed :
              /\ Decomposed[up][2] = Decomposed[ch][2]
              /\ \E n \in 1..26 : /\ LowerLetters[n] = Decomposed[ch][1]
                                  /\ UpperLetters[n] = Decomposed[up][1]>>
    ELSE <<ch>>

\* the characters of the texts drawn
Chars ==
    {LowerLetters[n] : n \in 1..26} \cup {UpperLetters[n] : n \in 1..26}
    \cup DOMAIN Decomposed \cup {"+^", "+'", "+~", "+,"}
    \cup {"0", "1", "2", "3", "4", "5", "6", "7", "8", "9", "9x4301"}
    \cup {" ", "NL", "-", "/", "_", ".", ":"}

\* s.upper(), character by character
UpperMap == [ch \in Chars |-> UpperChar(ch)]

Upper(s) == <<>> \o [n \in 1..Len(s) |-> UpperMap[s[n]][1]]

\* NFD, then the characters of category Mn dropped, then upper, of one character
NormChar(ch) ==
    LET kept == SelectSeq(NFDChar(ch), LAMBDA c : ~IsMn(c))
    IN  IF kept = <<>> THEN <<>> ELSE UpperChar(kept[1])

NormMap == [ch \in Chars |-> NormChar(ch)]

\* _norm: NFD, drop the combining marks, upper-case (no character of Chars
\* becomes more than one character)
_norm(s) ==
    LET kept == SelectSeq(s, LAMBDA ch : NormMap[ch] # <<>>)
    IN  <<>> \o [n \in 1..Len(kept) |-> NormMap[kept[n]][1]]

IsSpace(ch) == ch \in {" ", "NL"}

\* str.strip()
RECURSIVE LStrip(_)
LStrip(s) == IF s # <<>> /\ IsSpace(Head(s)) THEN LStrip(Tail(s)) ELSE s

RECURSIVE RStrip(_)
RStrip(s) ==
    IF s # <<>> /\ IsSpace(s[Len(s)]) THEN RStrip(SubSeq(s, 1, Len(s) - 1)) ELSE s

Strip(s) == RStrip(LStrip(s))

\* haystack.startswith(needle, at)
StartsAt(hay, needle, at) ==
    /\ at + Len(needle) <= Len(hay)
    /\ \A n \in 1..Len(needle) : hay[at + n] = needle[n]

\* haystack.find(needle, from): lowest index >= from where needle starts, or -1
Find(hay, needle, from) ==
    LET hits == {at \in from..(Len(hay) - Len(needle)) :
                    hay[at + 1] = needle[1] /\ StartsAt(hay, needle, at)}
    IN  IF hits = {} THEN -1 ELSE CHOOSE at \in hits : \A o \in hits : at <= o

\* needle in haystack
Contains(hay, needle) == Find(hay, needle, 0) # -1

DigitChars == <<"0","1","2","3","4","5","6","7","8","9">>

IsDigitChar(ch) == ch \in {DigitChars[n] : n \in 1..10} \cup {"9x4301"}

DigitVal(ch) == (CHOOSE n \in 1..10 : DigitChars[n] = ch) - 1

\* re.fullmatch(r"\d+", line)
IsDigitLine(line) == Len(line) >= 1 /\ \A n \in 1..Len(line) : IsDigitChar(line[n])

\* int(line) of a digit line
RECURSIVE ToInt(_)
ToInt(line) ==
    IF line = <<>> THEN 0
    ELSE 10 * ToInt(SubSeq(line, 1, Len(line) - 1)) + DigitVal(line[Len(line)])

\* " ".join(parts)
RECURSIVE Join(_)
Join(parts) ==
    IF parts = <<>> THEN <<>>
    ELSE IF Len(parts) = 1 THEN parts[1]
    ELSE parts[1] \o <<" ">> \o Join(Tail(parts))

RECURSIVE SelectNonEmptyStripped(_)
SelectNonEmptyStripped(ls) ==
    IF ls = <<>> THEN <<>>
    ELSE (IF Strip(Head(ls)) # <<>> THEN <<Strip(Head(ls))>> ELSE <<>>)
         \o SelectNonEmptyStripped(Tail(ls))

---------------------------------------------------------------------------
(* Literals of the source                                                  *)

MaoDeObra == "Mao de Obra"

Equipamento == "Equipamento"

W_Direto == <<"D","i","r","e","t","o">>
W_Indireto == <<"I","n","d","i","r","e","t","o">>
W_DIRETO == <<"D","I","R","E","T","O">>
W_INDIRETO == <<"I","N","D","I","R","E","T","O">>
W_Mecanico_c == <<"M","e","c","a^","n","i","c","o">>
W_Eletrico_a == <<"E","l","e'","t","r","i","c","o">>
W_MECANICO == <<"M","E","C","A","N","I","C","O">>
W_ELETRICO == <<"E","L","E","T","R","I","C","O">>
W_MECANICO_c == <<"M","E","C","A^","N","I","C","O">>
W_ELETRICO_a == <<"E","L","E'","T","R","I","C","O">>

FrenteUnica ==
    <<"F","R","E","N","T","E"," ","D","E"," ","O","B","R","A"," ","U'","N","I","C","A">>

P_MO1 ==
    <<"R","E","C","U","R","S","O","S"," ","E","M"," ","O","P","E","R","A",
      "C","A","O"," ","M","A","O"," ","D","E"," ","O","B","R","A">>

P_MO2 ==
    <<"R","E","C","U","R","S","O","S"," ","E","M"," ","O","P","E","R","A",
      "C","A","O"," ","-"," ","M","A","O"," ","D","E"," ","O","B","R","A">>

P_MO3 ==
    <<"R","E","C","U","R","S","O","S"," ","D","E"," ","O","P","E","R","A",
      "C","A","O"," ","M","A","O"," ","D","E"," ","O","B","R","A">>

P_EQ1 ==
    <<"R","E","C","U","R","S","O","S"," ","E","M"," ","O","P","E","R","A",
      "C","A","O"," ","E","Q","U","I","P","A","M","E","N","T","O">>

P_EQ2 ==
    <<"R","E","C","U","R","S","O","S"," ","E","M"," ","O","P","E","R","A",
      "C","A","O"," ","-"," ","E","Q","U","I","P","A","M","E","N","T","O">>

P_EQ3 ==
    <<"R","E","C","U","R","S","O","S"," ","D","E"," ","O","P","E","R","A",
      "C","A","O"," ","E","Q","U","I","P","A","M","E","N","T","O">>

P_ASSINATURAS ==
    <<"A","S","S","I","N","A","T","U","R","A","S">>

P_ASSINATURA ==
    <<"A","S","S","I","N","A","T","U","R","A">>

P_RESPONSAVEL ==
    <<"R","E","S","P","O","N","S","A","V","E","L">>

P_RESPONSAVEL_a ==
    <<"R","E","S","P","O","N","S","A'","V","E","L">>

P_OBSERVACOES ==
    <<"O","B","S","E","R","V","A","C","O","E","S">>

P_OBSERVACOES_a ==
    <<"O","B","S","E","R","V","A","C,","O~","E","S">>

W_TOTAL ==
    <<"T","O","T","A","L">>

H_FrentedeObra ==
    <<"F","r","e","n","t","e"," ","d","e"," ","O","b","r","a">>

H_Classificacao ==
    <<"C","l","a","s","s","i","f","i","c","a","c,","a~","o">>

H_Funcao ==
    <<"F","u","n","c,","a~","o">>

H_Manha ==
    <<"M","a","n","h","a~">>

H_Tarde ==
    <<"T","a","r","d","e">>

H_Noite ==
    <<"N","o","i","t","e">>

H_EmOperacao ==
    <<"E","m"," ","O","p","e","r","a","c,","a~","o">>

H_Fiscalizado ==
    <<"F","i","s","c","a","l","i","z","a","d","o">>

H_Geral ==
    <<"G","e","r","a","l">>

H_Contratado ==
    <<"C","o","n","t","r","a","t","a","d","o">>

HEADERS_TO_IGNORE ==
    {H_FrentedeObra, H_Classificacao, H_Funcao, H_Manha, H_Tarde,
     H_Noite, H_EmOperacao, H_Fiscalizado, H_Geral, H_Contratado}

DataNaoEncontrada ==
    <<"D","a","t","a"," ","n","a~","o"," ","e","n","c","o","n","t","r","a",
      "d","a">>

\* the number of integers a run needs to become a record (len(nums) >= 6)
MinRun == 6

\* the number of numeric columns of a record (while len(nums) < 7)
NumCols == 7

---------------------------------------------------------------------------
(* _parse_secao, the scan of the cleaned lines (lines 108-192)             *)

\* class_words of the section
ClassWords(t) ==
    IF t = MaoDeObra
    THEN {W_Direto, W_Indireto, W_DIRETO, W_INDIRETO}
    ELSE {W_Mecanico_c, W_Eletrico_a, W_MECANICO, W_ELETRICO, W_MECANICO_c, W_ELETRICO_a}

\* lk in class_words
IsClassLine(line, t) == Strip(line) \in ClassWords(t)

\* the if / elif chain on up = _norm(lk)
Classifica(lk) ==
    LET up == _norm(lk)
    IN  IF Contains(up, W_DIRETO) THEN W_Direto
        ELSE IF Contains(up, W_INDIRETO) THEN W_Indireto
        ELSE IF Contains(up, W_MECANICO) THEN W_Mecanico_c
        ELSE IF Contains(up, W_ELETRICO) THEN W_Eletrico_a
        ELSE <<>>

\* for k in range(i - 1, -1, -1): the k of the break, or -1 without one
RECURSIVE Recua(_, _, _)
Recua(ls, k, t) ==
    IF k < 0 THEN -1
    ELSE IF IsClassLine(At(ls, k), t) THEN k
    ELSE Recua(ls, k - 1, t)

\* a plausible slip: the previous line is taken as frente without the class-word test
FrenteDeSemTeste(ls, k, t) == IF k > 0 THEN Strip(At(ls, k - 1)) ELSE <<>>

\* frente, set in the loop body at the break
FrenteDe(ls, k, t) ==
    IF k > 0 /\ ~IsClassLine(At(ls, k - 1), t) THEN Strip(At(ls, k - 1)) ELSE <<>>

\* funcao_linhas at the break: linhas[k + 1:i], stripped, the empty ones dropped
FuncaoAchada(ls, k, i) == SelectNonEmptyStripped(Slice(ls, k + 1, i))

\* a plausible slip: every line before the run instead of the last three
FuncaoPadraoTodas(ls, i) == SelectNonEmptyStripped(Slice(ls, 0, i))

\* funcao_linhas without a break: linhas[max(0, i - 3):i]
FuncaoPadrao(ls, i) == SelectNonEmptyStripped(Slice(ls, Max(0, i - 3), i))

\* " ".join(funcao_linhas).strip() if funcao_linhas else ""
FuncaoDe(funcao_linhas) == IF funcao_linhas # <<>> THEN Strip(Join(funcao_linhas)) ELSE <<>>

\* classificacao, frente and funcao of the run that starts at i
Atribui(ls, i, t) ==
    LET k == Recua(ls, i - 1, t)
    IN  IF k # -1
        THEN [classificacao |-> Classifica(Strip(At(ls, k))),
              frente |-> FrenteDe(ls, k, t),
              funcao |-> FuncaoDe(FuncaoAchada(ls, k, i))]
        ELSE [classificacao |-> <<>>,
              frente |-> FrenteUnica,
              funcao |-> FuncaoDe(FuncaoPadrao(ls, i))]

\* the inner while: the index after the last digit line of the run at j
RECURSIVE RunEnd(_, _)
RunEnd(ls, j) ==
    IF j < Len(ls) /\ IsDigitLine(At(ls, j)) THEN RunEnd(ls, j + 1) ELSE j

\* nums as appended by the inner while
RunNums(ls, i, j) == [n \in 1..(j - i) |-> ToInt(At(ls, i + n - 1))]

\* a plausible slip: the run is completed with a value other than 0
RECURSIVE CompletaComUm(_)
CompletaComUm(nums) == IF Len(nums) < NumCols THEN CompletaComUm(Append(nums, 1)) ELSE nums

\* while len(nums) < 7: nums.append(0)
RECURSIVE Completa(_)
Completa(nums) == IF Len(nums) < NumCols THEN Completa(Append(nums, 0)) ELSE nums

\* a plausible slip: the Equipamento reordering is lost
MapeiaColunasPosicional(nums, t) == Slice(nums, 0, 7)

\* the column mapping: <<contratado, eom, fm, eot, ft, eon, fn>>
MapeiaColunas(nums, t) ==
    IF t = MaoDeObra
    THEN Slice(nums, 0, 7)
    ELSE <<nums[1], nums[6], nums[7], nums[4], nums[5], nums[2], nums[3]>>

\* the dict appended to dados
Registro(ls, i, j, nome_arquivo, data_rdo, t) ==
    LET a == Atribui(ls, i, t)
        cols == MapeiaColunas(Completa(RunNums(ls, i, j)), t)
    IN  [NomeDoArquivo |-> nome_arquivo,
         DataDaRDO |-> data_rdo,
         Tipo |-> t,
         Funcao |-> a.funcao,
         Frente |-> a.frente,
         Classificacao |-> a.classificacao,
         Contratado |-> cols[1],
         EOM |-> cols[2], FM |-> cols[3],
         EOT |-> cols[4], FT |-> cols[5],
         EON |-> cols[6], FN |-> cols[7]]

\* a plausible slip: an accepted run is left one line at a time
AposAceiteUmaLinha(i, j) == i + 1

\* the cursor after an accepted run (i = j)
AposAceite(i, j) == j

\* the cursor after a rejected run (i += 1)
AposRejeite(i, j) == i + 1

\* the outer while, from cursor i with the records d so far
RECURSIVE Varre(_, _, _, _, _, _)
Varre(ls, i, d, nome_arquivo, data_rdo, t) ==
    IF i >= Len(ls) THEN d
    ELSE IF IsDigitLine(At(ls, i))
    THEN LET j == RunEnd(ls, i)
         IN  IF j - i >= MinRun
             THEN Varre(ls, AposAceite(i, j),
                        Append(d, Registro(ls, i, j, nome_arquivo, data_rdo, t)),
                        nome_arquivo, data_rdo, t)
             ELSE Varre(ls, AposRejeite(i, j), d, nome_arquivo, data_rdo, t)
    ELSE Varre(ls, i + 1, d, nome_arquivo, data_rdo, t)

\* dados = [] ; i = 0 ; while ... ; return dados
ParseLinhas(ls, nome_arquivo, data_rdo, t) == Varre(ls, 0, <<>>, nome_arquivo, data_rdo, t)

---------------------------------------------------------------------------
(* _recorta_bloco (lines 45-91)                                            *)

\* starts of the section
Starts(t) == IF t = MaoDeObra THEN <<P_MO1, P_MO2, P_MO3>> ELSE <<P_EQ1, P_EQ2, P_EQ3>>

\* ends of the section
Ends(t) ==
    IF t = MaoDeObra
    THEN <<P_EQ1, P_EQ2, P_EQ3>>
    ELSE <<P_ASSINATURAS, P_ASSINATURA, P_RESPONSAVEL, P_RESPONSAVEL_a,
           P_OBSERVACOES, P_OBSERVACOES_a>>

\* a plausible slip: the earliest occurrence of any phrase instead of the
\* occurrence of the first-listed phrase that occurs
RECURSIVE MaisCedo(_, _, _)
MaisCedo(tnorm, phrases, from) ==
    IF phrases = <<>> THEN -1
    ELSE LET here == Find(tnorm, Head(phrases), from)
             rest == MaisCedo(tnorm, Tail(phrases), from)
         IN  IF here = -1 THEN rest
             ELSE IF rest = -1 THEN here
             ELSE Min(here, rest)

\* next((tnorm.find(x, from) for x in phrases if tnorm.find(x, from) != -1), -1)
RECURSIVE PrimeiroAchado(_, _, _)
PrimeiroAchado(tnorm, phrases, from) ==
    IF phrases = <<>> THEN -1
    ELSE LET here == Find(tnorm, Head(phrases), from)
         IN  IF here # -1 THEN here ELSE PrimeiroAchado(tnorm, Tail(phrases), from)

\* the locals s and e at the return (s = -1: return None)
CorteDe(tnorm, t) ==
    LET s == PrimeiroAchado(tnorm, Starts(t), 0)
        e == IF s = -1 THEN -1 ELSE PrimeiroAchado(tnorm, Ends(t), s + 1)
    IN  [s |-> s, e |-> IF e = -1 \/ e <= s THEN Len(tnorm) ELSE e]

Corte(txt, t) == CorteDe(_norm(txt), t)

\* int(x * ratio) with ratio = len(texto) / max(len(tnorm), 1), a float
\* division: exact when the lengths are equal or x is 0; otherwise the
\* floor of x * lo / ln, or one less when that quotient is a whole number
\* and the float product falls just under it (under)
Projeta(x, lo, ln, under) ==
    LET d == Max(ln, 1)
    IN  IF lo = d \/ x = 0 THEN (x * lo) \div d
        ELSE IF (x * lo) % d = 0 /\ under THEN ((x * lo) \div d) - 1
        ELSE (x * lo) \div d

\* texto[int(s * ratio): int(e * ratio)]
Recorte(txt, c, ln, under_s, under_e) ==
    Slice(txt, Projeta(c.s, Len(txt), ln, under_s), Projeta(c.e, Len(txt), ln, under_e))

\* _recorta_bloco: <<>> for None, else <<the slice of the original text>>
_recorta_bloco(txt, t, under_s, under_e) ==
    LET tnorm == _norm(txt)
        c == CorteDe(tnorm, t)
    IN  IF c.s = -1 THEN <<>> ELSE <<Recorte(txt, c, Len(tnorm), under_s, under_e)>>

---------------------------------------------------------------------------
(* extrair_data_rdo (lines 34-43)                                          *)

\* str.splitlines(): the lines between the newlines, no empty last line
SplitLines(txt) ==
    LET nl == {n \in 1..Len(txt) : txt[n] = "NL"}
        k == Cardinality(nl)
        pos == <<>> \o [m \in 1..k |->
                   CHOOSE n \in nl : Cardinality({x \in nl : x < n}) = m - 1]
        count == IF txt = <<>> \/ txt[Len(txt)] = "NL" THEN k ELSE k + 1
    IN  <<>> \o [m \in 1..count |->
            SubSeq(txt, IF m = 1 THEN 1 ELSE pos[m - 1] + 1,
                        IF m <= k THEN pos[m] - 1 ELSE Len(txt))]

\* "\n".join(parts)
RECURSIVE JoinNL(_)
JoinNL(parts) ==
    IF parts = <<>> THEN <<>>
    ELSE IF Len(parts) = 1 THEN parts[1]
    ELSE parts[1] \o <<"NL">> \o JoinNL(Tail(parts))

\* \w of the regular expression
IsWordChar(ch) ==
    \/ IsDigitChar(ch)
    \/ ch = "_"
    \/ \E n \in 1..26 : ch = LowerLetters[n] \/ ch = UpperLetters[n]
    \/ ch \in DOMAIN Decomposed

\* r"\b(\d{2}/\d{2}/\d{4})\b" matches at index at
DataEm(txt, at) ==
    /\ at + 10 <= Len(txt)
    /\ \A n \in {1, 2, 4, 5, 7, 8, 9, 10} : IsDigitChar(txt[at + n])
    /\ txt[at + 3] = "/" /\ txt[at + 6] = "/"
    /\ (at = 0 \/ ~IsWordChar(txt[at]))
    /\ (at + 10 = Len(txt) \/ ~IsWordChar(txt[at + 11]))

\* re.search(...).group(1) over the head of the text, or the sentinel
DataPorPadrao(txt) ==
    LET hits == {at \in 0..Len(txt) : DataEm(txt, at)}
    IN  IF hits = {} THEN DataNaoEncontrada
        ELSE LET at == CHOOSE a \in hits : \A o \in hits : a <= o
             IN  Slice(txt, at, at + 10)

extrair_data_rdo(txt) ==
    LET ls == SplitLines(txt)
    IN  IF Len(ls) > 10
        THEN (IF Strip(At(ls, 10)) # <<>> THEN Strip(At(ls, 10)) ELSE DataNaoEncontrada)
        ELSE DataPorPadrao(JoinNL(Slice(ls, 0, Min(30, Len(ls)))))

---------------------------------------------------------------------------
(* _parse_secao, from the document text (lines 99-106)                     *)

\* l and l not in HEADERS_TO_IGNORE and "TOTAL" not in l.upper()
Mantem(l) == l # <<>> /\ l \notin HEADERS_TO_IGNORE /\ ~Contains(Upper(l), W_TOTAL)

RECURSIVE LimpaLinhas(_)
LimpaLinhas(ls) ==
    IF ls = <<>> THEN <<>>
    ELSE (IF Mantem(Strip(Head(ls))) THEN <<Strip(Head(ls))>> ELSE <<>>)
         \o LimpaLinhas(Tail(ls))

\* linhas of _parse_secao for a block
Limpa(blk) == LimpaLinhas(SplitLines(blk))

\* digits a line may have for int() (CPython's default int_max_str_digits);
\* the character "9x4301" stands for 4301 consecutive digits 9
IntRaises(line) == \E n \in 1..Len(line) : line[n] = "9x4301"

\* the scan raises ValueError: every digit line of linhas goes through int()
ScanRaises(ls) == \E n \in 1..Len(ls) : IsDigitLine(ls[n]) /\ IntRaises(ls[n])

\* _parse_secao raises for this text and section
ParseSecaoRaises(txt, t) ==
    LET b == _recorta_bloco(txt, t, FALSE, FALSE)
    IN  b # <<>> /\ b[1] # <<>> /\ ScanRaises(Limpa(b[1]))

\* _parse_secao when it returns
_parse_secao(txt, nome_arquivo, t) ==
    LET b == _recorta_bloco(txt, t, FALSE, FALSE)
    IN  IF b = <<>> \/ b[1] = <<>> THEN <<>>
        ELSE ParseLinhas(Limpa(b[1]), nome_arquivo, extrair_data_rdo(txt), t)

---------------------------------------------------------------------------
(* processar_arquivos (lines 194-226)                                      *)

\* the row text of a file without records (line 207)
SemBlocos == "[BLOCOS NAO ENCONTRADOS OU SEM PADRAO]"

\* a file of the batch: its name, whether f.read() or _texto_pdf raises
\* ("read", "pdf", "nenhuma"), and the text _texto_pdf returns
Arquivo(nome, falha, txt) == [nome |-> nome, falha |-> falha, texto |-> txt]

\* str(e) of the exception a file raises
Mensagem(f) ==
    IF f.falha = "read" THEN "read failed"
    ELSE IF f.falha = "pdf" THEN "cannot open broken document"
    ELSE "Exceeds the limit (4300 digits) for integer string conversion: value has 4301 digits; use sys.set_int_max_str_digits() to increase the limit"

\* the except branch: one row for the file, carrying the error text
ComErro(acc, f) ==
    [saida |-> acc.saida,
     inconsistencias |->
         Append(acc.inconsistencias,
                [NomeDoArquivo |-> f.nome, Linha |-> "[ERRO] " \o Mensagem(f)])]

\* a plausible slip: the rows of Mao de Obra are appended as soon as they
\* are parsed, before Equipamento is parsed
ProcessaAnexandoCedo(acc, f) ==
    IF f.falha # "nenhuma" THEN ComErro(acc, f)
    ELSE IF ParseSecaoRaises(f.texto, MaoDeObra) THEN ComErro(acc, f)
    ELSE LET dados_mo == _parse_secao(f.texto, f.nome, MaoDeObra)
             cedo == [acc EXCEPT !.saida = acc.saida \o dados_mo]
         IN  IF ParseSecaoRaises(f.texto, Equipamento) THEN ComErro(cedo, f)
             ELSE LET dados_eq == _parse_secao(f.texto, f.nome, Equipamento)
                  IN  IF dados_mo = <<>> /\ dados_eq = <<>>
                      THEN [cedo EXCEPT !.inconsistencias =
                                Append(@, [NomeDoArquivo |-> f.nome,
                                           Linha |-> SemBlocos])]
                      ELSE [cedo EXCEPT !.saida = @ \o dados_eq]

\* a plausible slip: the rows of Equipamento are appended before those of
\* Mao de Obra
ProcessaEquipamentoPrimeiro(acc, f) ==
    IF f.falha # "nenhuma" THEN ComErro(acc, f)
    ELSE IF ParseSecaoRaises(f.texto, MaoDeObra) THEN ComErro(acc, f)
    ELSE IF ParseSecaoRaises(f.texto, Equipamento) THEN ComErro(acc, f)
    ELSE LET dados_mo == _parse_secao(f.texto, f.nome, MaoDeObra)
             dados_eq == _parse_secao(f.texto, f.nome, Equipamento)
         IN  IF dados_mo = <<>> /\ dados_eq = <<>>
             THEN [acc EXCEPT !.inconsistencias =
                       Append(@, [NomeDoArquivo |-> f.nome,
                                  Linha |-> SemBlocos])]
             ELSE [acc EXCEPT !.saida = @ \o dados_eq \o dados_mo]

\* the body of "for f in files": the accumulators after the file f
Processa(acc, f) ==
    IF f.falha = "read" THEN ComErro(acc, f)
    ELSE IF f.falha = "pdf" THEN ComErro(acc, f)
    ELSE IF ParseSecaoRaises(f.texto, MaoDeObra) THEN ComErro(acc, f)
    ELSE LET dados_mo == _parse_secao(f.texto, f.nome, MaoDeObra)
         IN  IF ParseSecaoRaises(f.texto, Equipamento) THEN ComErro(acc, f)
             ELSE LET dados_eq == _parse_secao(f.texto, f.nome, Equipamento)
                  IN  IF dados_mo = <<>> /\ dados_eq = <<>>
                      THEN [acc EXCEPT !.inconsistencias =
                                Append(@, [NomeDoArquivo |-> f.nome,
                                           Linha |-> SemBlocos])]
                      ELSE [acc EXCEPT !.saida = @ \o dados_mo \o dados_eq]

---------------------------------------------------------------------------
(* Inputs of the scan                                                      *)

\* longest text context drawn before the first numeric run
MaxCtx == 2

\* longest first numeric run drawn
MaxRun == 8

L_ObraNorte == <<"O","b","r","a"," ","N","o","r","t","e">>
L_Pedreiro == <<"P","e","d","r","e","i","r","o">>
L_direto == <<"d","i","r","e","t","o">>
L_Mecanico == <<"M","e","c","a","n","i","c","o">>

\* lines drawn before the first numeric run: two names and two class words
\* of the section
TextLines(t) ==
    IF t = MaoDeObra
    THEN {L_ObraNorte, L_Pedreiro, W_Direto, W_Indireto}
    ELSE {L_ObraNorte, L_Pedreiro, W_Mecanico_c, W_ELETRICO}

\* lines drawn between the two numeric runs: a name, a class word of the
\* section and a line that only normalizes to one
MidLines(t) ==
    IF t = MaoDeObra
    THEN {L_Pedreiro, W_INDIRETO, L_direto}
    ELSE {L_Pedreiro, W_Eletrico_a, L_Mecanico}

DigitPool1 ==
    <<(<<"1","0">>), (<<"1">>), (<<"2">>), (<<"3">>), (<<"4">>), (<<"5">>), (<<"6">>),
      (<<"0","7">>), (<<"8">>), (<<"9">>), (<<"0">>)>>

DigitPool2 ==
    <<(<<"1","2">>), (<<"8">>), (<<"4">>), (<<"9">>), (<<"3">>), (<<"7">>), (<<"2">>)>>

SeqUpTo(S, n) == UNION {[1..m -> S] : m \in 0..n}

\* lengths of the second numeric run drawn: none, too short, accepted, full
Run2Lens == {0, MinRun - 1, MinRun, NumCols}

ScanInputs(t) ==
    {c1 \o SubSeq(DigitPool1, 1, n1) \o c2 \o SubSeq(DigitPool2, 1, n2) :
        c1 \in SeqUpTo(TextLines(t), MaxCtx),
        n1 \in 0..Min(MaxRun, Len(DigitPool1)),
        c2 \in SeqUpTo(MidLines(t), 1),
        n2 \in Run2Lens}

\* s and e before _recorta_bloco has run
SemCorte == [s |-> -1, e |-> -1]

\* the batch loop and the locator not started
Idle ==
    /\ texto = <<>> /\ bloco = <<>> /\ corte = SemCorte
    /\ files = <<>> /\ idx = 0 /\ saida = <<>> /\ inconsistencias = <<>>

InitScan ==
    /\ pc = "scan"
    /\ tipo \in {MaoDeObra, Equipamento}
    /\ linhas \in ScanInputs(tipo)
    /\ dados = <<>>
    /\ Idle

\* dados = the records of the scan over linhas
ParseSecaoScan ==
    /\ pc = "scan"
    /\ dados' = ParseLinhas(linhas, "doc", DataNaoEncontrada, tipo)
    /\ pc' = "scanned"
    /\ UNCHANGED <<tipo, linhas, texto, bloco, corte, files, idx, saida, inconsistencias>>

NextScan == ParseSecaoScan

SpecScan == InitScan /\ [][NextScan]_vars

---------------------------------------------------------------------------
(* Inputs and specification of the locator                                 *)

\* most text segments (lines) a document of the locator is drawn with
MaxSegs == 4

T_MO1 ==
    <<"R","E","C","U","R","S","O","S"," ","E","M"," ","O","P","E","R","A",
      "C,","A~","O"," ","M","A~","O"," ","D","E"," ","O","B","R","A">>

T_MO3 ==
    <<"R","e","c","u","r","s","o","s"," ","d","e"," ","O","p","e","r","a",
      "c,","a~","o"," ","M","a~","o"," ","d","e"," ","O","b","r","a">>

T_EQ1 ==
    <<"R","E","C","U","R","S","O","S"," ","E","M"," ","O","P","E","R","A",
      "C,","A~","O"," ","E","Q","U","I","P","A","M","E","N","T","O">>

T_EQ2 ==
    <<"R","e","c","u","r","s","o","s"," ","e","m"," ","O","p","e","r","a",
      "c,","a~","o"," ","-"," ","E","q","u","i","p","a","m","e","n","t",
      "o">>

T_Assinatura ==
    <<"A","s","s","i","n","a","t","u","r","a">>

T_Responsavel ==
    <<"R","e","s","p","o","n","s","a'","v","e","l">>

\* a name with a combining tilde (decomposed form): _norm shortens it
T_Joao ==
    <<"J","o","a","+~","o">>

\* segments a document of the given section is drawn from
Segs(t) ==
    IF t = MaoDeObra
    THEN {T_MO1, T_MO3, T_EQ1, T_EQ2, T_Joao}
    ELSE {T_EQ1, T_EQ2, T_Assinatura, T_Responsavel, T_Joao}

InitRecorta ==
    /\ pc = "recorta"
    /\ tipo \in {MaoDeObra, Equipamento}
    /\ texto \in {JoinNL(q) : q \in SeqUpTo(Segs(tipo), MaxSegs)}
    /\ bloco = <<>> /\ corte = SemCorte
    /\ linhas = <<>> /\ dados = <<>>
    /\ files = <<>> /\ idx = 0 /\ saida = <<>> /\ inconsistencias = <<>>

\* _recorta_bloco(texto, tipo)
RecortaBloco ==
    /\ pc = "recorta"
    /\ LET tnorm == _norm(texto)
           c == CorteDe(tnorm, tipo)
       IN  /\ corte' = c
           /\ \E under_s, under_e \in BOOLEAN :
                 bloco' = IF c.s = -1 THEN <<>>
                          ELSE <<Recorte(texto, c, Len(tnorm), under_s, under_e)>>
    /\ pc' = "recortado"
    /\ UNCHANGED <<tipo, linhas, dados, texto, files, idx, saida, inconsistencias>>

NextRecorta == RecortaBloco

SpecRecorta == InitRecorta /\ [][NextRecorta]_vars

---------------------------------------------------------------------------
(* Inputs and specification of the batch loop                             *)

\* most files a batch is drawn with
MaxFiles == 3

\* both sections, one record each (11 lines or more: the date is line 10)
TXT_Completo ==
    <<"R","D","O"," ","0","5","/","0","3","/","2","0","2","4","NL","R","E",
      "C","U","R","S","O","S"," ","E","M"," ","O","P","E","R","A","C,","A~",
      "O"," ","M","A~","O"," ","D","E"," ","O","B","R","A","NL","F","r","e",
      "n","t","e"," ","d","e"," ","O","b","r","a","NL","O","b","r","a"," ",
      "N","o","r","t","e","NL","D","i","r","e","t","o","NL","P","e","d","r",
      "e","i","r","o","NL","1","2","NL","8","NL","4","NL","9","NL","3","NL",
      "7","NL","2","NL","T","o","t","a","l"," ","G","e","r","a","l","NL",
      "R","E","C","U","R","S","O","S"," ","E","M"," ","O","P","E","R","A",
      "C,","A~","O"," ","E","Q","U","I","P","A","M","E","N","T","O","NL",
      "M","e","c","a^","n","i","c","o","NL","T","r","a","t","o","r","NL",
      "NL","1","0","NL","1","NL","2","NL","3","NL","4","NL","5","NL","A",
      "s","s","i","n","a","t","u","r","a","s">>

\* Mao de Obra only, one record (fewer than 11 lines: the date by pattern)
TXT_SoMaoDeObra ==
    <<"D","a","t","a",":"," ","0","5","/","0","3","/","2","0","2","4","NL",
      "R","e","c","u","r","s","o","s"," ","e","m"," ","O","p","e","r","a",
      "c,","a~","o"," ","-"," ","M","a~","o"," ","d","e"," ","O","b","r",
      "a","NL","P","e","d","r","e","i","r","o","NL","1","0","NL","1","NL",
      "2","NL","3","NL","4","NL","5","NL","6">>

\* a Mao de Obra block whose only run is too short, no Equipamento block
TXT_SemRegistros ==
    <<"R","E","C","U","R","S","O","S"," ","E","M"," ","O","P","E","R","A",
      "C,","A~","O"," ","M","A~","O"," ","D","E"," ","O","B","R","A","NL",
      "P","e","d","r","e","i","r","o","NL","1","NL","2","NL","3","NL","4",
      "NL","5">>

\* the text of a file whose read or text extraction raises is never used
TXT_Ilegivel ==
    <<"R","D","O">>

\* a Mao de Obra record, then an Equipamento line int() refuses
TXT_NumeroLongo ==
    <<"R","E","C","U","R","S","O","S"," ","E","M"," ","O","P","E","R","A",
      "C","A","O"," ","M","A","O"," ","D","E"," ","O","B","R","A","NL","D",
      "i","r","e","t","o","NL","P","e","d","r","e","i","r","o","NL","1","2",
      "NL","8","NL","4","NL","9","NL","3","NL","7","NL","R","E","C","U","R",
      "S","O","S"," ","E","M"," ","O","P","E","R","A","C","A","O"," ","E",
      "Q","U","I","P","A","M","E","N","T","O","NL","T","r","a","t","o","r",
      "NL","9x4301">>

Catalogo ==
    {Arquivo("completo.pdf", "nenhuma", TXT_Completo),
     Arquivo("so_mo.pdf", "nenhuma", TXT_SoMaoDeObra),
     Arquivo("vazio.pdf", "nenhuma", TXT_SemRegistros),
     Arquivo("trancado.pdf", "read", TXT_Ilegivel),
     Arquivo("corrompido.pdf", "pdf", TXT_Ilegivel),
     Arquivo("longo.pdf", "nenhuma", TXT_NumeroLongo)}

Init ==
    /\ pc = "loop"
    /\ files \in SeqUpTo(Catalogo, MaxFiles)
    /\ idx = 0 /\ saida = <<>> /\ inconsistencias = <<>>
    /\ tipo = MaoDeObra /\ linhas = <<>> /\ dados = <<>>
    /\ texto = <<>> /\ bloco = <<>> /\ corte = SemCorte

\* one iteration of "for f in files"
ProcessaArquivo ==
    /\ pc = "loop"
    /\ idx < Len(files)
    /\ \E acc \in {Processa([saida |-> saida, inconsistencias |-> inconsistencias],
                             files[idx + 1])} :
           saida' = acc.saida /\ inconsistencias' = acc.inconsistencias
    /\ idx' = idx + 1
    /\ UNCHANGED <<pc, tipo, linhas, dados, texto, bloco, corte, files>>

\* the loop is over: the two collections are returned as they stand
Retorna ==
    /\ pc = "loop"
    /\ idx = Len(files)
    /\ pc' = "done"
    /\ UNCHANGED <<tipo, linhas, dados, texto, bloco, corte, files, idx, saida, inconsistencias>>

Next == ProcessaArquivo \/ Retorna

Spec == Init /\ [][Next]_vars

---------------------------------------------------------------------------
(* Properties of the batch loop                                            *)

\* the file raises somewhere in the try block
Falha(f) ==
    \/ f.falha # "nenhuma"
    \/ ParseSecaoRaises(f.texto, MaoDeObra)
    \/ ParseSecaoRaises(f.texto, Equipamento)

\* what each file of the catalogue yields when it is the whole batch
Sozinho ==
    [f \in Catalogo |->
        [falha |-> Falha(f),
         mo |-> IF Falha(f) THEN <<>> ELSE _parse_secao(f.texto, f.nome, MaoDeObra),
         eq |-> IF Falha(f) THEN <<>> ELSE _parse_secao(f.texto, f.nome, Equipamento)]] @@ <<>>

RegistrosDe(f) == Sozinho[f].mo \o Sozinho[f].eq

RECURSIVE Repete(_, _)
Repete(s, k) == IF k = 0 THEN <<>> ELSE s \o Repete(s, k - 1)

\* how many of the files processed so far are the file f
Vezes(f) == Cardinality({n \in 1..idx : files[n] = f})

DoArquivo(rows, f) == SelectSeq(rows, LAMBDA r : r.NomeDoArquivo = f.nome)

LinhaDeErro(f) == [NomeDoArquivo |-> f.nome, Linha |-> "[ERRO] " \o Mensagem(f)]

LinhaSemBlocos(f) == [NomeDoArquivo |-> f.nome, Linha |-> SemBlocos]

\* C6: a file that raises leaves exactly one error row and no record, every
\* other file leaves exactly what it leaves as a batch of its own, and the
\* loop returns only after the last file
C6_FailureIsolated ==
    /\ pc = "done" => idx = Len(files)
    /\ \A f \in Catalogo :
           IF Sozinho[f].falha
           THEN /\ DoArquivo(saida, f) = <<>>
                /\ DoArquivo(inconsistencias, f) = Repete(<<LinhaDeErro(f)>>, Vezes(f))
           ELSE /\ DoArquivo(saida, f) = Repete(RegistrosDe(f), Vezes(f))
                /\ LinhaDeErro(f) \notin {inconsistencias[n] : n \in 1..Len(inconsistencias)}

\* C6 witness: a batch of three returned, the file in the middle raised inside
\* the Equipamento parse after its Mao de Obra parse had found a record
C6_Witness ==
    /\ pc = "done"
    /\ Len(files) = 3
    /\ files[1].nome = "completo.pdf"
    /\ files[2].nome = "longo.pdf"
    /\ files[3].nome = "so_mo.pdf"
    /\ _parse_secao(files[2].texto, files[2].nome, MaoDeObra) # <<>>
    /\ inconsistencias = <<LinhaDeErro(files[2])>>
    /\ Len(saida) = 3
    /\ saida[3].NomeDoArquivo = "so_mo.pdf"

RECURSIVE EsperadoAte(_)
\* the records and the no-sections rows the first n files should have left
EsperadoAte(n) ==
    IF n = 0 THEN [saida |-> <<>>, semBlocos |-> <<>>]
    ELSE LET antes == EsperadoAte(n - 1)
             f == files[n]
         IN  IF Sozinho[f].falha THEN antes
             ELSE IF RegistrosDe(f) = <<>>
             THEN [antes EXCEPT !.semBlocos = Append(@, LinhaSemBlocos(f))]
             ELSE [antes EXCEPT !.saida = @ \o Sozinho[f].mo \o Sozinho[f].eq]

\* C7: a file that raises nothing and yields no record leaves one no-sections
\* row; otherwise its Mao de Obra records then its Equipamento records are
\* appended; the files come in input order
C7_RecordsInOrder ==
    /\ saida = EsperadoAte(idx).saida
    /\ SelectSeq(inconsistencias, LAMBDA r : r.Linha = SemBlocos) = EsperadoAte(idx).semBlocos

\* C7 witness: a file without records, then a file with a record in each
\* section, then a file with a Mao de Obra record only
C7_Witness ==
    /\ pc = "done"
    /\ Len(files) = 3
    /\ files[1].nome = "vazio.pdf"
    /\ files[2].nome = "completo.pdf"
    /\ files[3].nome = "so_mo.pdf"
    /\ inconsistencias = <<LinhaSemBlocos(files[1])>>
    /\ [n \in 1..Len(saida) |-> <<saida[n].NomeDoArquivo, saida[n].Tipo>>]
           = << <<"completo.pdf", MaoDeObra>>, <<"completo.pdf", Equipamento>>,
                <<"so_mo.pdf", MaoDeObra>> >>

---------------------------------------------------------------------------
(* Properties of the scan                                                  *)

\* the start indexes of the maximal runs of digit-only lines
RunStarts(ls) ==
    {b \in 0..(Len(ls) - 1) :
        IsDigitLine(At(ls, b)) /\ (b = 0 \/ ~IsDigitLine(At(ls, b - 1)))}

\* the length of the maximal run that starts at b
RECURSIVE RunLenAt(_, _)
RunLenAt(ls, b) ==
    IF b < Len(ls) /\ IsDigitLine(At(ls, b)) THEN 1 + RunLenAt(ls, b + 1) ELSE 0

LongStarts(ls) == {b \in RunStarts(ls) : RunLenAt(ls, b) >= 6}

\* the start of the r-th maximal run of at least 6 lines, in scan order
NthLong(ls, r) ==
    LET L == LongStarts(ls)
    IN  CHOOSE b \in L : Cardinality({x \in L : x < b}) = r - 1

\* the first 7 values of the run at b, with 0 where the run has none
Padded7(ls, b) ==
    LET len == RunLenAt(ls, b)
    IN  [n \in 1..7 |-> IF n <= len THEN ToInt(At(ls, b + n - 1)) ELSE 0]

NumFields(rec) == <<rec.Contratado, rec.EOM, rec.FM, rec.EOT, rec.FT, rec.EON, rec.FN>>

Occurrences(q, v) == Cardinality({n \in 1..Len(q) : q[n] = v})

SameBag(q1, q2) ==
    /\ Len(q1) = Len(q2)
    /\ \A n \in 1..Len(q1) : Occurrences(q1, q1[n]) = Occurrences(q2, q1[n])

Scanned == pc = "scanned"

\* C1: the scan emits exactly one record per maximal run of at least 6
\* digit-only lines, in scan order, built from the run's first 7 values only,
\* and none for a maximal run of 1 to 5 lines.
C1_OneRecordPerLongRun ==
    Scanned =>
        /\ Len(dados) = Cardinality(LongStarts(linhas))
        /\ \A r \in 1..Len(dados) :
              SameBag(NumFields(dados[r]), Padded7(linhas, NthLong(linhas, r)))

C1_Witness ==
    /\ Scanned
    /\ \E b \in RunStarts(linhas) : RunLenAt(linhas, b) = 5
    /\ \E b \in RunStarts(linhas) : RunLenAt(linhas, b) = 8
    /\ Len(dados) = 1

\* C2 (as amended): every record carries 7 non-negative integers, and a
\* record of a run of exactly 6 numbers has 0 in the field that the column
\* mapping fills from the missing seventh number: Fiscalizado (noite) under
\* Mao de Obra, Fiscalizado (manha) under Equipamento.
C2_PaddedFieldIsZero ==
    Scanned =>
        \A r \in 1..Len(dados) :
            /\ \A n \in 1..7 : NumFields(dados[r])[n] \in Nat
            /\ Len(NumFields(dados[r])) = 7
            /\ RunLenAt(linhas, NthLong(linhas, r)) = 6 =>
                   IF tipo = MaoDeObra THEN dados[r].FN = 0 ELSE dados[r].FM = 0

C2_Witness ==
    /\ Scanned
    /\ tipo = Equipamento
    /\ \E r \in 1..Len(dados) :
          /\ RunLenAt(linhas, NthLong(linhas, r)) = 6
          /\ dados[r].FM = 0
          /\ dados[r].FN # 0

\* C2 (as stated): every record carries 7 non-negative integers, and a record
\* of a run of exactly 6 numbers has 0 in its trailing numeric field, for
\* Mao de Obra and Equipamento alike.
C2_TrailingFieldIsZero ==
    Scanned =>
        \A r \in 1..Len(dados) :
            /\ \A n \in 1..7 : NumFields(dados[r])[n] \in Nat
            /\ RunLenAt(linhas, NthLong(linhas, r)) = 6 => dados[r].FN = 0

\* C3: a Mao de Obra record maps the padded numbers n[0..6] positionally and
\* an Equipamento record by the fixed permutation n0, n5, n6, n3, n4, n1, n2.
C3_ColumnMapping ==
    Scanned =>
        \A r \in 1..Len(dados) :
            LET n == Padded7(linhas, NthLong(linhas, r))
            IN  IF dados[r].Tipo = MaoDeObra
                THEN NumFields(dados[r]) = <<n[1], n[2], n[3], n[4], n[5], n[6], n[7]>>
                ELSE NumFields(dados[r]) = <<n[1], n[6], n[7], n[4], n[5], n[2], n[3]>>

C3_Witness ==
    /\ Scanned
    /\ tipo = Equipamento
    /\ \E r \in 1..Len(dados) :
          /\ Padded7(linhas, NthLong(linhas, r)) = <<10, 1, 2, 3, 4, 5, 6>>
          /\ NumFields(dados[r]) = <<10, 5, 6, 3, 4, 1, 2>>

\* the indexes before i of the lines the section's class_words hold
ClassBefore(ls, i, t) == {k \in 0..(i - 1) : At(ls, k) \in ClassWords(t)}

Nearest(S) == CHOOSE k \in S : \A o \in S : o <= k

\* C4: when a classification word precedes an accepted run at i, the record
\* is attributed from the nearest one, at k: frente is lines[k-1] if k > 0 and
\* that line is no classification word, else empty; the name is the
\* space-join of the lines strictly between k and i.
C4_AttributedFromNearest ==
    Scanned =>
        \A r \in 1..Len(dados) :
            LET i == NthLong(linhas, r)
                S == ClassBefore(linhas, i, tipo)
            IN  S # {} =>
                    LET k == Nearest(S)
                    IN  /\ dados[r].Frente =
                              IF k > 0 /\ At(linhas, k - 1) \notin ClassWords(tipo)
                              THEN At(linhas, k - 1) ELSE <<>>
                        /\ dados[r].Funcao = Join(Slice(linhas, k + 1, i))

C4_Witness ==
    /\ Scanned
    /\ tipo = MaoDeObra
    /\ linhas = <<L_ObraNorte, W_Direto, L_Pedreiro>> \o DigitPool2
    /\ Len(dados) = 1
    /\ dados[1].Frente = L_ObraNorte
    /\ dados[1].Classificacao = W_Direto
    /\ dados[1].Funcao = L_Pedreiro
    /\ NumFields(dados[1]) = <<12, 8, 4, 9, 3, 7, 2>>

\* C5: when no classification word precedes an accepted run at i, the record
\* has frente "FRENTE DE OBRA UNICA", an empty classification and the
\* space-join of lines[max(0, i-3):i] as name; with a classification word
\* before the run the record is not the fallback one.
C5_FallbackOnlyWithoutClassWord ==
    Scanned =>
        \A r \in 1..Len(dados) :
            LET i == NthLong(linhas, r)
            IN  IF ClassBefore(linhas, i, tipo) = {}
                THEN /\ dados[r].Frente = FrenteUnica
                     /\ dados[r].Classificacao = <<>>
                     /\ dados[r].Funcao = Join(Slice(linhas, Max(0, i - 3), i))
                ELSE dados[r].Classificacao # <<>>

C5_Witness ==
    /\ Scanned
    /\ \E r \in 1..Len(dados) :
          /\ NthLong(linhas, r) > 3
          /\ ClassBefore(linhas, NthLong(linhas, r), tipo) = {}
          /\ dados[r].Frente = FrenteUnica

\* C9: the classification of a record is the canonical label of the nearest
\* classification word before its run: DIRETO gives Direto, INDIRETO gives
\* Indireto, MECANICO gives Mecanico, ELETRICO gives Eletrico.
C9_CanonicalLabel ==
    Scanned =>
        \A r \in 1..Len(dados) :
            LET i == NthLong(linhas, r)
                S == ClassBefore(linhas, i, tipo)
            IN  S # {} =>
                    LET up == _norm(At(linhas, Nearest(S)))
                    IN  /\ up = W_DIRETO => dados[r].Classificacao = W_Direto
                        /\ up = W_INDIRETO => dados[r].Classificacao = W_Indireto
                        /\ up = W_MECANICO => dados[r].Classificacao = W_Mecanico_c
                        /\ up = W_ELETRICO => dados[r].Classificacao = W_Eletrico_a

\* the vocabulary of the section, normalized
Vocabulary(t) == IF t = MaoDeObra THEN {W_DIRETO, W_INDIRETO} ELSE {W_MECANICO, W_ELETRICO}

\* the indexes before i of the lines whose normalized form is in the vocabulary
NormClassBefore(ls, i, t) == {k \in 0..(i - 1) : _norm(At(ls, k)) \in Vocabulary(t)}

\* C10: a line is taken as the classification word of a record exactly when
\* its normalized form is in the section's vocabulary: the record is
\* attributed from the nearest such line, and is the fallback record when
\* there is none.
C10_NormalizedRecognition ==
    Scanned =>
        \A r \in 1..Len(dados) :
            LET i == NthLong(linhas, r)
                S == NormClassBefore(linhas, i, tipo)
            IN  IF S = {}
                THEN dados[r].Classificacao = <<>> /\ dados[r].Frente = FrenteUnica
                ELSE /\ dados[r].Classificacao # <<>>
                     /\ dados[r].Funcao = Join(Slice(linhas, Nearest(S) + 1, i))

---------------------------------------------------------------------------
(* Properties of the locator                                               *)

MinOf(S) == CHOOSE a \in S : \A o \in S : a <= o

\* the indexes >= from at which the phrase ph occurs in tn
Occ(tn, ph, from) == {at \in from..Len(tn) : StartsAt(tn, ph, at)}

\* C8: _recorta_bloco returns nothing when no start anchor occurs in the
\* normalized text; otherwise the cut starts at the first occurrence of the
\* first-listed start anchor that occurs anywhere, and ends at the first
\* occurrence after the start of the first-listed end anchor that occurs
\* after the start, or at the end of the text when none does.  With equal
\* lengths of text and normalized text the value returned is that slice.
C8_FirstListedAnchorWins ==
    pc = "recortado" =>
        LET tn == _norm(texto)
            st == Starts(tipo)
            en == Ends(tipo)
            present == {n \in 1..Len(st) : Occ(tn, st[n], 0) # {}}
        IN  IF present = {} THEN bloco = <<>>
            ELSE LET s == MinOf(Occ(tn, st[MinOf(present)], 0))
                     after == {n \in 1..Len(en) : Occ(tn, en[n], s + 1) # {}}
                     e == IF after = {} THEN Len(tn)
                          ELSE MinOf(Occ(tn, en[MinOf(after)], s + 1))
                 IN  /\ bloco # <<>>
                     /\ corte = [s |-> s, e |-> e]
                     /\ Len(texto) = Len(tn) => bloco[1] = Slice(texto, s, e)

C8_Witness ==
    /\ pc = "recortado"
    /\ tipo = MaoDeObra
    /\ LET tn == _norm(texto)
       IN  /\ Find(tn, P_MO3, 0) # -1
           /\ Find(tn, P_MO1, 0) > Find(tn, P_MO3, 0)
           /\ Find(tn, P_EQ2, 0) > Find(tn, P_MO1, 0)
           /\ Find(tn, P_EQ1, 0) > Find(tn, P_EQ2, 0)
           /\ corte.s = Find(tn, P_MO1, 0)
           /\ corte.e = Find(tn, P_EQ1, 0)
           /\ Len(texto) = Len(tn)
           /\ bloco = <<Slice(texto, corte.s, corte.e)>>

=============================================================================
